---- MODULE Spec2Model ----
(***************************************************************************)
(* Model of crates/starknet-server/src/api/serde_helpers.rs: the serde     *)
(* helpers that translate wire values (JSON values, hex texts, base64/gzip *)
(* blobs) into typed values and back.                                      *)
(*                                                                         *)
(* A text is a sequence of one-character strings.  A JSON value is a       *)
(* record [t, v] whose tag t is "null", "bool", "num", "str", "arr" or     *)
(* "obj".  A Felt is a big-endian sequence of FeltNibbles hex nibbles.     *)
(* A Result is [ok, val, err].                                             *)
(***************************************************************************)
EXTENDS Integers, Sequences, FiniteSets, TLC

VARIABLES input, stage, cur, prev, steps, handed

vars == <<input, stage, cur, prev, steps, handed>>

(***************************************************************************)
(* Bounds of the explored inputs.                                          *)
(***************************************************************************)
MaxHexLen == 4
MaxFeltDigits == 2
MaxCalls == 3
MaxAbiLen == 4
MaxParams == 3
MaxDecompressed == 4
OutputCeiling == 2

(***************************************************************************)
(* Results and JSON values.                                                *)
(***************************************************************************)
NoVal == [t |-> "none", v |-> 0]
NoErr == [kind |-> "none"]

Ok(x) == [ok |-> TRUE, val |-> x, err |-> NoErr]
Err(e) == [ok |-> FALSE, val |-> NoVal, err |-> e]

JNull == [t |-> "null", v |-> 0]
JBool(b) == [t |-> "bool", v |-> b]
JNum(n) == [t |-> "num", v |-> n]
JStr(s) == [t |-> "str", v |-> s]
JArr(a) == [t |-> "arr", v |-> a]
JObj(f) == [t |-> "obj", v |-> f]

Custom(msg) == [kind |-> "custom", msg |-> msg]
InvalidType(expected) == [kind |-> "invalid_type", expected |-> expected]

\* String::deserialize(deserializer)
String_deserialize(wire) ==
    IF wire.t = "str" THEN Ok(wire.v) ELSE Err(InvalidType("a string"))

(***************************************************************************)
(* Texts.                                                                  *)
(***************************************************************************)
Repeat(c, n) == [i \in 1..n |-> c]
Zeros(n) == Repeat("0", n)

TextsUpTo(alphabet, n) == UNION {[1..k -> alphabet] : k \in 0..n}

HexLower == <<"0", "1", "2", "3", "4", "5", "6", "7",
              "8", "9", "a", "b", "c", "d", "e", "f">>
HexUpper == <<"0", "1", "2", "3", "4", "5", "6", "7",
              "8", "9", "A", "B", "C", "D", "E", "F">>

IsHexDigit(c) == \E i \in 1..16 : HexLower[i] = c \/ HexUpper[i] = c
HexDigitValue(c) == CHOOSE n \in 0..15 : HexLower[n + 1] = c \/ HexUpper[n + 1] = c

\* the number of leading elements of seq equal to z
LeadingCount(seq, z) ==
    IF \A i \in 1..Len(seq) : seq[i] = z
    THEN Len(seq)
    ELSE (CHOOSE i \in 1..Len(seq) : seq[i] # z /\ \A j \in 1..(i - 1) : seq[j] = z) - 1

TrimStart(seq, z) == SubSeq(seq, LeadingCount(seq, z) + 1, Len(seq))

(***************************************************************************)
(* Field elements (starknet_types::felt::Felt).                            *)
(***************************************************************************)
FeltBytes == 32
FeltNibbles == 2 * FeltBytes

\* nibbles, at most FeltNibbles of them, left-padded to the fixed width
PadNibbles(ns) == [i \in 1..(FeltNibbles - Len(ns)) |-> 0] \o ns

\* big-endian comparison of two fixed-width values
FeltLess(a, b) ==
    \E i \in 1..FeltNibbles : a[i] < b[i] /\ \A j \in 1..(i - 1) : a[j] = b[j]

\* the field modulus 2^251 + 17 * 2^192 + 1
FieldModulus ==
    PadNibbles(<<8>> \o [i \in 1..12 |-> 0] \o <<1, 1>> \o [i \in 1..47 |-> 0] \o <<1>>)

\* Felt::from_prefixed_hex_str
from_prefixed_hex_str(s) ==
    IF Len(s) < 3 \/ s[1] # "0" \/ s[2] # "x"
    THEN Err([kind |-> "MalformedHex", why |-> "prefix"])
    ELSE LET digits == SubSeq(s, 3, Len(s))
         IN IF \E i \in 1..Len(digits) : ~IsHexDigit(digits[i])
            THEN Err([kind |-> "MalformedHex", why |-> "digit"])
            ELSE LET ns == TrimStart([i \in 1..Len(digits) |-> HexDigitValue(digits[i])], 0)
                 IN IF Len(ns) > FeltNibbles
                    THEN Err([kind |-> "MalformedHex", why |-> "modulus"])
                    ELSE IF ~FeltLess(PadNibbles(ns), FieldModulus)
                         THEN Err([kind |-> "MalformedHex", why |-> "modulus"])
                         ELSE Ok(PadNibbles(ns))

\* <Felt as ToHexString>::to_prefixed_hex_str
to_prefixed_hex_str(felt) ==
    LET ns == TrimStart(felt, 0)
    IN IF ns = <<>>
       THEN <<"0", "x", "0">>
       ELSE <<"0", "x">> \o [i \in 1..Len(ns) |-> HexLower[ns[i] + 1]]

\* serialization without the prefix: a defect of the encoder
serialize_to_nonprefixed_hex(felt) ==
    Ok(JStr(SubSeq(to_prefixed_hex_str(felt), 3, Len(to_prefixed_hex_str(felt)))))

\* hex_string::serialize_to_prefixed_hex
serialize_to_prefixed_hex(felt) ==
    Ok(JStr(to_prefixed_hex_str(felt)))

\* a prefixed decoder that prepends the prefix once more
deserialize_reprefixed_hex_string_to_felt(wire) ==
    LET buf == String_deserialize(wire)
    IN IF ~buf.ok THEN buf ELSE from_prefixed_hex_str(<<"0", "x">> \o buf.val)

\* hex_string::deserialize_non_prefixed_hex_string_to_felt
deserialize_non_prefixed_hex_string_to_felt(wire) ==
    LET buf == String_deserialize(wire)
    IN IF ~buf.ok THEN buf ELSE from_prefixed_hex_str(<<"0", "x">> \o buf.val)

\* hex_string::deserialize_prefixed_hex_string_to_felt
deserialize_prefixed_hex_string_to_felt(wire) ==
    LET buf == String_deserialize(wire)
    IN IF ~buf.ok THEN buf ELSE from_prefixed_hex_str(buf.val)

(***************************************************************************)
(* Range-constrained keys (starknet_types::patricia_key::PatriciaKey and   *)
(* starknet_types::contract_address::ContractAddress).                     *)
(***************************************************************************)
\* the tree-key bound: 2^251 is a key, 2^251 + 1 is not
PatriciaKeyBound == PadNibbles(<<8>> \o [i \in 1..61 |-> 0] \o <<1>>)
\* the address bound 2^251 - 256
ContractAddressBound == PadNibbles(<<7>> \o [i \in 1..60 |-> 15] \o <<0, 0>>)

OutOfRange(felt, bound) == [kind |-> "OutOfRange", value |-> felt, bound |-> bound]

\* PatriciaKey::new
PatriciaKey_new(felt) ==
    IF FeltLess(felt, PatriciaKeyBound)
    THEN Ok([t |-> "PatriciaKey", v |-> felt])
    ELSE Err(OutOfRange(felt, PatriciaKeyBound))

\* ContractAddress::new
ContractAddress_new(felt) ==
    IF FeltLess(felt, ContractAddressBound)
    THEN Ok([t |-> "ContractAddress", v |-> felt])
    ELSE Err(OutOfRange(felt, ContractAddressBound))

\* PatriciaKey::to_felt
to_felt(patricia_key) == patricia_key.v

\* <ContractAddress as ToHexString>::to_prefixed_hex_str
address_to_prefixed_hex_str(contract_address) == to_prefixed_hex_str(contract_address.v)

\* a key decoder that omits the range check
deserialize_to_prefixed_patricia_key_unchecked(wire) ==
    LET felt == deserialize_prefixed_hex_string_to_felt(wire)
    IN IF ~felt.ok THEN felt ELSE Ok([t |-> "PatriciaKey", v |-> felt.val])

\* hex_string::deserialize_to_prefixed_patricia_key
deserialize_to_prefixed_patricia_key(wire) ==
    LET felt == deserialize_prefixed_hex_string_to_felt(wire)
    IN IF ~felt.ok THEN felt ELSE PatriciaKey_new(felt.val)

\* hex_string::deserialize_to_prefixed_contract_address
deserialize_to_prefixed_contract_address(wire) ==
    LET felt == deserialize_prefixed_hex_string_to_felt(wire)
    IN IF ~felt.ok THEN felt ELSE ContractAddress_new(felt.val)

\* a key encoder that pads the digits to the full width
serialize_patricia_key_to_padded_hex(patricia_key) ==
    Ok(JStr(<<"0", "x">> \o [i \in 1..FeltNibbles |-> HexLower[to_felt(patricia_key)[i] + 1]]))

\* hex_string::serialize_patricia_key_to_prefixed_hex
serialize_patricia_key_to_prefixed_hex(patricia_key) ==
    Ok(JStr(to_prefixed_hex_str(to_felt(patricia_key))))

\* hex_string::serialize_contract_address_to_prefixed_hex
serialize_contract_address_to_prefixed_hex(contract_address) ==
    Ok(JStr(address_to_prefixed_hex_str(contract_address)))

\* the handlers a key decoder runs, in order
KeySteps(wire, constructor) ==
    IF deserialize_prefixed_hex_string_to_felt(wire).ok
    THEN <<"deserialize_prefixed_hex_string_to_felt", constructor>>
    ELSE <<"deserialize_prefixed_hex_string_to_felt">>

(***************************************************************************)
(* serde_json::from_str on the texts made of digits, brackets and commas.  *)
(***************************************************************************)
Digits == <<"0", "1", "2", "3", "4", "5", "6", "7", "8", "9">>
IsDigit(c) == \E i \in 1..10 : Digits[i] = c
DigitValue(c) == (CHOOSE i \in 1..10 : Digits[i] = c) - 1

\* the index after the run of digits that starts at i
DigitsEnd(s, i) ==
    IF \A j \in i..Len(s) : IsDigit(s[j])
    THEN Len(s) + 1
    ELSE CHOOSE j \in i..Len(s) : ~IsDigit(s[j]) /\ \A k \in i..(j - 1) : IsDigit(s[k])

RECURSIVE DecimalValue(_)
DecimalValue(ds) ==
    IF ds = <<>> THEN 0
    ELSE 10 * DecimalValue(SubSeq(ds, 1, Len(ds) - 1)) + DigitValue(ds[Len(ds)])

Parsed(val, next) == [ok |-> TRUE, val |-> val, next |-> next]
Syntax == [ok |-> FALSE, val |-> NoVal, next |-> 0]

RECURSIVE ParseValue(_, _), ParseElements(_, _, _)
\* one JSON value starting at index i
ParseValue(s, i) ==
    IF i > Len(s) THEN Syntax
    ELSE IF IsDigit(s[i])
    THEN LET e == DigitsEnd(s, i)
         IN IF s[i] = "0" /\ e > i + 1
            THEN Syntax
            ELSE Parsed(JNum(DecimalValue(SubSeq(s, i, e - 1))), e)
    ELSE IF s[i] = "["
    THEN IF i + 1 <= Len(s) /\ s[i + 1] = "]"
         THEN Parsed(JArr(<<>>), i + 2)
         ELSE ParseElements(s, i + 1, <<>>)
    ELSE Syntax

\* the elements of an array after its bracket, up to the closing bracket
ParseElements(s, i, acc) ==
    LET e == ParseValue(s, i)
    IN IF ~e.ok \/ e.next > Len(s) THEN Syntax
       ELSE IF s[e.next] = ","
       THEN ParseElements(s, e.next + 1, Append(acc, e.val))
       ELSE IF s[e.next] = "]"
       THEN Parsed(JArr(Append(acc, e.val)), e.next + 1)
       ELSE Syntax

\* serde_json::from_str::<serde_json::Value>
serde_json_from_str(s) ==
    LET r == ParseValue(s, 1)
    IN IF r.ok /\ r.next = Len(s) + 1
       THEN Ok(r.val)
       ELSE Err(Custom("invalid JSON text"))

(***************************************************************************)
(* rpc_sierra_contract_class_to_sierra_contract_class.                     *)
(***************************************************************************)
Some(x) == [some |-> TRUE, x |-> x]
None == [some |-> FALSE, x |-> NoVal]

\* serde_json::Value::get(&str): a member of an object, None for anything else
Value_get(value, key) ==
    IF value.t = "obj" /\ key \in DOMAIN value.v THEN Some(value.v[key]) ELSE None

\* serde_json::Map::insert
Map_insert(map, key, value) ==
    [k \in DOMAIN map \cup {key} |-> IF k = key THEN value ELSE map[k]]

RequiredClassFields == {"sierra_program", "contract_class_version"}

\* serde_json::from_value::<ContractClass>; the items of the abi and of the
\* program are not inspected
from_value_ContractClass(doc) ==
    IF doc.t # "obj"
    THEN Err(Custom("invalid type, expected struct ContractClass"))
    ELSE IF ~(RequiredClassFields \subseteq DOMAIN doc.v)
    THEN Err(Custom("missing field"))
    ELSE IF \/ doc.v["sierra_program"].t # "arr"
            \/ doc.v["contract_class_version"].t # "str"
            \/ "abi" \in DOMAIN doc.v /\ doc.v["abi"].t \notin {"arr", "null"}
    THEN Err(Custom("invalid type of a field"))
    ELSE Ok([t |-> "ContractClass", v |-> doc.v])

\* a rewrite that keeps only the parsed abi
normalized_document_abi_only(json_obj) ==
    LET abi == Value_get(json_obj, "abi")
    IN IF abi.some /\ abi.x.t = "str"
       THEN LET arr == serde_json_from_str(abi.x.v)
            IN IF ~arr.ok THEN arr
               ELSE IF json_obj.t # "obj"
               THEN Err(Custom("Expected to be an object"))
               ELSE Ok(JObj([k \in {"abi"} |-> arr.val]))
       ELSE Ok(json_obj)

\* the document deserialize_to_sierra_contract_class hands to from_value
normalized_document(json_obj) ==
    LET abi == Value_get(json_obj, "abi")
    IN IF abi.some /\ abi.x.t = "str"
       THEN LET arr == serde_json_from_str(abi.x.v)
            IN IF ~arr.ok THEN arr
               ELSE IF json_obj.t # "obj"
               THEN Err(Custom("Expected to be an object"))
               ELSE Ok(JObj(Map_insert(json_obj.v, "abi", arr.val)))
       ELSE Ok(json_obj)

\* deserialize_to_sierra_contract_class
deserialize_to_sierra_contract_class(wire) ==
    LET doc == normalized_document(wire)
    IN IF ~doc.ok THEN doc ELSE from_value_ContractClass(doc.val)

(***************************************************************************)
(* empty_params.                                                           *)
(***************************************************************************)
Unit == [t |-> "unit", v |-> 0]

\* <() as Deserialize>::deserialize: the unit value is read from null only
Unit_deserialize(wire) ==
    IF wire.t = "null" THEN Ok(Unit) ELSE Err(InvalidType("unit"))

\* Option::<Vec<()>>::deserialize(d)
OptionVecUnit_deserialize(wire) ==
    IF wire.t = "null" THEN Ok(None)
    ELSE IF wire.t # "arr" THEN Err(InvalidType("a sequence"))
    ELSE IF \E i \in 1..Len(wire.v) : ~Unit_deserialize(wire.v[i]).ok
    THEN Err(InvalidType("unit"))
    ELSE Ok(Some([i \in 1..Len(wire.v) |-> Unit]))

UnexpectedLength(n) ==
    [kind |-> "custom", msg |-> "expected params sequence with length 0 but got", len |-> n]

\* empty_params::deserialize
empty_params_deserialize(wire) ==
    LET opt == OptionVecUnit_deserialize(wire)
    IN IF ~opt.ok THEN opt
       ELSE LET seq == IF opt.val.some THEN opt.val.x ELSE <<>>
            IN IF seq # <<>> THEN Err(UnexpectedLength(Len(seq))) ELSE Ok(Unit)

(***************************************************************************)
(* base_64_gzipped_json_string.  A blob text is the empty text, a text     *)
(* that is no base64, or the base64 of some bytes; bytes are raw bytes or  *)
(* a gzip stream (possibly with a damaged trailer) of `size` units of      *)
(* content; content is a JSON document or text that is no JSON.            *)
(***************************************************************************)
EmptyText == [t |-> "text", v |-> 0]
NotBase64(n) == [t |-> "text", v |-> n]
Base64(bytes) == [t |-> "base64", v |-> bytes]

RawBytes(n) == [t |-> "raw", v |-> n]
Gzip(size, content) == [t |-> "gzip", v |-> [size |-> size, data |-> content]]
GzipDamaged(size, content) == [t |-> "gzip_damaged", v |-> [size |-> size, data |-> content]]

JsonText(doc) == [t |-> "json", v |-> doc]
NotJson == [t |-> "garbage", v |-> 0]

Base64Error == Custom("program: Unable to decode base64 string")
GzippedBytesError == Custom("program: Unable to decode gzipped bytes")
ParseToJsonError == Custom("program: Unable to parse to JSON")

\* String::is_empty
is_empty(buf) == buf = EmptyText

\* base64::engine::general_purpose::STANDARD.decode
base64_decode(buf) ==
    IF buf.t = "base64" THEN Ok(buf.v)
    ELSE IF buf.v = 0 THEN Ok(RawBytes(0))
    ELSE Err(Custom("invalid base64"))

ProgramRequired == {"data", "prime"}
ProgramOptional == {"compiler_version"}

\* <LegacyProgram as Deserialize>: unknown members are ignored
LegacyProgram_deserialize(doc) ==
    IF doc.t # "obj" THEN Err(Custom("invalid type, expected struct LegacyProgram"))
    ELSE IF ~(ProgramRequired \subseteq DOMAIN doc.v) THEN Err(Custom("missing field"))
    ELSE IF doc.v["data"].t # "arr" \/ doc.v["prime"].t # "str"
    THEN Err(Custom("invalid type of a field"))
    ELSE Ok([t |-> "LegacyProgram",
             v |-> [k \in DOMAIN doc.v \cap (ProgramRequired \cup ProgramOptional) |-> doc.v[k]]])

\* serde_json::from_reader::<_, LegacyProgram>(GzDecoder::new(bytes)): the
\* stream is inflated while it is parsed, and read to its end afterwards
from_reader_LegacyProgram(bytes) ==
    IF bytes.t \notin {"gzip", "gzip_damaged"} THEN Err(Custom("invalid gzip header"))
    ELSE IF bytes.v.data.t # "json" THEN Err(Custom("invalid JSON text"))
    ELSE IF ~LegacyProgram_deserialize(bytes.v.data.v).ok
    THEN LegacyProgram_deserialize(bytes.v.data.v)
    ELSE IF bytes.t = "gzip_damaged" THEN Err(Custom("corrupt gzip stream"))
    ELSE LegacyProgram_deserialize(bytes.v.data.v)

\* serde_json::to_value(starknet_program)
to_value(program) == Ok(JObj(program.v))

\* a decoder without the test for the empty text
deserialize_to_serde_json_value_unguarded(wire) ==
    LET buf == String_deserialize(wire)
    IN IF ~buf.ok THEN buf
       ELSE LET bytes == base64_decode(buf.val)
            IN IF ~bytes.ok THEN Err(Base64Error)
               ELSE LET starknet_program == from_reader_LegacyProgram(bytes.val)
                    IN IF ~starknet_program.ok THEN Err(GzippedBytesError)
                       ELSE IF ~to_value(starknet_program.val).ok THEN Err(ParseToJsonError)
                       ELSE to_value(starknet_program.val)

\* deserialize_to_serde_json_value_with_keys_ordered_in_alphabetical_order
deserialize_to_serde_json_value_with_keys_ordered_in_alphabetical_order(wire) ==
    LET buf == String_deserialize(wire)
    IN IF ~buf.ok THEN buf
       ELSE IF is_empty(buf.val) THEN Ok(JNull)
       ELSE LET bytes == base64_decode(buf.val)
            IN IF ~bytes.ok THEN Err(Base64Error)
               ELSE LET starknet_program == from_reader_LegacyProgram(bytes.val)
                    IN IF ~starknet_program.ok THEN Err(GzippedBytesError)
                       ELSE IF ~to_value(starknet_program.val).ok THEN Err(ParseToJsonError)
                       ELSE to_value(starknet_program.val)

\* the calls the blob decoder makes, in order
BlobSteps(wire) ==
    LET buf == String_deserialize(wire)
    IN IF ~buf.ok \/ is_empty(buf.val) THEN <<"String::deserialize">>
       ELSE IF ~base64_decode(buf.val).ok THEN <<"String::deserialize", "base64_decode">>
       ELSE IF ~from_reader_LegacyProgram(base64_decode(buf.val).val).ok
       THEN <<"String::deserialize", "base64_decode", "from_reader">>
       ELSE <<"String::deserialize", "base64_decode", "from_reader", "to_value">>

(***************************************************************************)
(* Inputs.                                                                 *)
(***************************************************************************)
HexAlphabet == {"0", "x", "1", "f", "F", "g"}

\* 2^251, the text of the patricia-key test
Text2Pow251 == <<"0", "x", "8">> \o Zeros(62)
Text2Pow251Plus1 == <<"0", "x", "8">> \o Zeros(61) \o <<"1">>
\* 2^252 + 1, the text rejected by the felt test
Text2Pow252Plus1 == <<"0", "x", "1">> \o Zeros(62) \o <<"1">>
TextModulus == <<"0", "x", "8">> \o Zeros(12) \o <<"1", "1">> \o Zeros(47) \o <<"1">>
TextModulusMinus1 == <<"0", "x", "8">> \o Zeros(12) \o <<"1", "1">> \o Zeros(48)
TextModulusPlus1 == <<"0", "x", "8">> \o Zeros(12) \o <<"1", "1">> \o Zeros(47) \o <<"2">>

SpecialHexTexts ==
    { Text2Pow251, Text2Pow251Plus1, Text2Pow252Plus1,
      TextModulus, TextModulusMinus1, TextModulusPlus1,
      <<"0", "x", "1", "0", "0">>,
      <<"0", "x", "0", "0", "0", "1">>,
      <<"0", "x", "0", "0", "F", "f">>,
      <<"0", "x">> \o Zeros(64) \o <<"1">>,
      <<"0", "x", "1">> \o Zeros(64),
      <<"0", "x", "7">> \o Repeat("f", 62),
      <<"0", "x", "7">> \o Repeat("f", 60) \o <<"0", "0">>,
      <<"0", "x", "7">> \o Repeat("f", 59) \o <<"e", "f", "f">> }

HexTexts == TextsUpTo(HexAlphabet, MaxHexLen) \cup SpecialHexTexts

HexWires == {JStr(s) : s \in HexTexts} \cup {JNull, JNum(1)}

FeltInputs ==
    { PadNibbles(ns) : ns \in TextsUpTo({0, 1, 15}, MaxFeltDigits) }
      \cup { r.val : r \in { rr \in {from_prefixed_hex_str(s) : s \in SpecialHexTexts} : rr.ok } }

PatriciaKeyInputs ==
    { r.val : r \in { rr \in {PatriciaKey_new(f) : f \in FeltInputs} : rr.ok } }
ContractAddressInputs ==
    { r.val : r \in { rr \in {ContractAddress_new(f) : f \in FeltInputs} : rr.ok } }

AbiAlphabet == {"[", "]", ",", "1", "0"}
Text123 == <<"[", "1", ",", "2", ",", "3", "]">>
AbiTexts == TextsUpTo(AbiAlphabet, MaxAbiLen) \cup {Text123, <<"[", "[", "1", "]", ",", "2", "]">>}

Array123 == JArr(<<JNum(1), JNum(2), JNum(3)>>)

AbiValues ==
    {JStr(t) : t \in AbiTexts} \cup {Array123, JNull, JNum(7), JObj(<<>>)}

OtherFields == {"sierra_program", "contract_class_version", "entry_points_by_type"}

FieldValue(k) ==
    CASE k = "sierra_program" -> JArr(<<JStr(<<"0", "x", "1">>)>>)
      [] k = "contract_class_version" -> JStr(<<"0", ".", "1", ".", "0">>)
      [] OTHER -> JObj(<<>>)

Documents ==
    {JNull, JBool(TRUE), JNum(1), JStr(Text123), Array123}
      \cup {JObj([k \in K |-> FieldValue(k)]) : K \in SUBSET OtherFields}
      \cup {JObj([k \in K \cup {"abi"} |-> IF k = "abi" THEN a ELSE FieldValue(k)]) :
                K \in SUBSET OtherFields, a \in AbiValues}

ParamElements == {JNull, JNum(1), JStr(<<"a">>)}
ParamWires ==
    {JNull, JNum(1), JObj(<<>>)} \cup {JArr(a) : a \in TextsUpTo(ParamElements, MaxParams)}

ProgramFieldValue(k) ==
    CASE k = "data" -> JArr(<<JStr(<<"0", "x", "1">>)>>)
      [] k = "prime" -> JStr(<<"0", "x", "1", "1">>)
      [] k = "compiler_version" -> JStr(<<"0", ".", "1", "0">>)
      [] OTHER -> JNum(1)

ProgramDocuments ==
    {JNull, Array123, JObj([k \in {"data", "prime"} |-> JNum(1)])}
      \cup {JObj([k \in K |-> ProgramFieldValue(k)]) :
                K \in SUBSET {"data", "prime", "compiler_version", "extra"}}

Contents == {NotJson} \cup {JsonText(d) : d \in ProgramDocuments}

BlobBytes ==
    {RawBytes(n) : n \in 1..2}
      \cup {Gzip(n, c) : n \in 1..MaxDecompressed, c \in Contents}
      \cup {GzipDamaged(n, c) : n \in 1..MaxDecompressed, c \in Contents}

BlobWires ==
    {JNull, JNum(1)}
      \cup {JStr(EmptyText)}
      \cup {JStr(NotBase64(n)) : n \in 1..2}
      \cup {JStr(Base64(b)) : b \in BlobBytes}

Calls ==
    [op : {"empty_params_deserialize"}, arg : ParamWires] \cup
    [op : {"deserialize_to_serde_json_value_with_keys_ordered_in_alphabetical_order"},
     arg : BlobWires] \cup
    [op : {"deserialize_to_sierra_contract_class"}, arg : Documents] \cup
    [op : {"deserialize_prefixed_hex_string_to_felt",
           "deserialize_non_prefixed_hex_string_to_felt",
           "deserialize_to_prefixed_patricia_key",
           "deserialize_to_prefixed_contract_address"}, arg : HexWires]
      \cup [op : {"serialize_to_prefixed_hex"}, arg : FeltInputs]
      \cup [op : {"serialize_patricia_key_to_prefixed_hex"}, arg : PatriciaKeyInputs]
      \cup [op : {"serialize_contract_address_to_prefixed_hex"}, arg : ContractAddressInputs]

(***************************************************************************)
(* The state machine: a call is drawn, handlers are applied in turn.       *)
(***************************************************************************)
Init ==
    /\ input \in Calls
    /\ stage = <<>>
    /\ cur = Ok(input.arg)
    /\ prev = Ok(input.arg)
    /\ steps = <<>>
    /\ handed = NoVal

First(op) == stage = <<>> /\ input.op = op
After(ops) == stage # <<>> /\ Len(stage) < MaxCalls /\ stage[Len(stage)] \in ops /\ cur.ok

Call_deserialize_prefixed_hex_string_to_felt ==
    /\ \/ First("deserialize_prefixed_hex_string_to_felt")
       \/ After({"serialize_to_prefixed_hex"})
    /\ cur' = deserialize_prefixed_hex_string_to_felt(cur.val)
    /\ prev' = cur
    /\ stage' = Append(stage, "deserialize_prefixed_hex_string_to_felt")
    /\ UNCHANGED <<input, steps, handed>>

Call_deserialize_non_prefixed_hex_string_to_felt ==
    /\ First("deserialize_non_prefixed_hex_string_to_felt")
    /\ cur' = deserialize_non_prefixed_hex_string_to_felt(cur.val)
    /\ prev' = cur
    /\ stage' = Append(stage, "deserialize_non_prefixed_hex_string_to_felt")
    /\ UNCHANGED <<input, steps, handed>>

Call_serialize_to_prefixed_hex ==
    /\ \/ First("serialize_to_prefixed_hex")
       \/ After({"deserialize_prefixed_hex_string_to_felt",
                 "deserialize_non_prefixed_hex_string_to_felt"})
    /\ cur' = serialize_to_prefixed_hex(cur.val)
    /\ prev' = cur
    /\ stage' = Append(stage, "serialize_to_prefixed_hex")
    /\ UNCHANGED <<input, steps, handed>>

Call_deserialize_to_prefixed_patricia_key ==
    /\ \/ First("deserialize_to_prefixed_patricia_key")
       \/ After({"serialize_patricia_key_to_prefixed_hex"})
    /\ cur' = deserialize_to_prefixed_patricia_key(cur.val)
    /\ steps' = KeySteps(cur.val, "PatriciaKey::new")
    /\ prev' = cur
    /\ stage' = Append(stage, "deserialize_to_prefixed_patricia_key")
    /\ UNCHANGED <<input, handed>>

Call_deserialize_to_prefixed_contract_address ==
    /\ \/ First("deserialize_to_prefixed_contract_address")
       \/ After({"serialize_contract_address_to_prefixed_hex"})
    /\ cur' = deserialize_to_prefixed_contract_address(cur.val)
    /\ steps' = KeySteps(cur.val, "ContractAddress::new")
    /\ prev' = cur
    /\ stage' = Append(stage, "deserialize_to_prefixed_contract_address")
    /\ UNCHANGED <<input, handed>>

Call_serialize_patricia_key_to_prefixed_hex ==
    /\ \/ First("serialize_patricia_key_to_prefixed_hex")
       \/ After({"deserialize_to_prefixed_patricia_key"})
    /\ cur' = serialize_patricia_key_to_prefixed_hex(cur.val)
    /\ prev' = cur
    /\ stage' = Append(stage, "serialize_patricia_key_to_prefixed_hex")
    /\ UNCHANGED <<input, steps, handed>>

Call_serialize_contract_address_to_prefixed_hex ==
    /\ \/ First("serialize_contract_address_to_prefixed_hex")
       \/ After({"deserialize_to_prefixed_contract_address"})
    /\ cur' = serialize_contract_address_to_prefixed_hex(cur.val)
    /\ prev' = cur
    /\ stage' = Append(stage, "serialize_contract_address_to_prefixed_hex")
    /\ UNCHANGED <<input, steps, handed>>

Call_deserialize_to_sierra_contract_class ==
    /\ First("deserialize_to_sierra_contract_class")
    /\ cur' = deserialize_to_sierra_contract_class(cur.val)
    /\ handed' = IF normalized_document(cur.val).ok
                 THEN normalized_document(cur.val).val
                 ELSE NoVal
    /\ steps' = IF normalized_document(cur.val).ok
                THEN <<"Value::deserialize", "from_value">>
                ELSE <<"Value::deserialize">>
    /\ prev' = cur
    /\ stage' = Append(stage, "deserialize_to_sierra_contract_class")
    /\ UNCHANGED input

Call_empty_params_deserialize ==
    /\ First("empty_params_deserialize")
    /\ cur' = empty_params_deserialize(cur.val)
    /\ prev' = cur
    /\ stage' = Append(stage, "empty_params_deserialize")
    /\ UNCHANGED <<input, steps, handed>>

\* the blob decoder is applied to the drawn text, and once more to the same text
Call_deserialize_to_serde_json_value_with_keys_ordered_in_alphabetical_order ==
    /\ input.op = "deserialize_to_serde_json_value_with_keys_ordered_in_alphabetical_order"
    /\ Len(stage) < 2
    /\ cur' = deserialize_to_serde_json_value_with_keys_ordered_in_alphabetical_order(input.arg)
    /\ prev' = cur
    /\ steps' = BlobSteps(input.arg)
    /\ stage' = Append(stage, "deserialize_to_serde_json_value_with_keys_ordered_in_alphabetical_order")
    /\ UNCHANGED <<input, handed>>

Next ==
    \/ Call_empty_params_deserialize
    \/ Call_deserialize_to_serde_json_value_with_keys_ordered_in_alphabetical_order
    \/ Call_deserialize_to_sierra_contract_class
    \/ Call_deserialize_prefixed_hex_string_to_felt
    \/ Call_deserialize_non_prefixed_hex_string_to_felt
    \/ Call_serialize_to_prefixed_hex
    \/ Call_deserialize_to_prefixed_patricia_key
    \/ Call_deserialize_to_prefixed_contract_address
    \/ Call_serialize_patricia_key_to_prefixed_hex
    \/ Call_serialize_contract_address_to_prefixed_hex

Spec == Init /\ [][Next]_vars

(***************************************************************************)
(* Properties of the hex codecs.                                           *)
(***************************************************************************)
SerFelt == "serialize_to_prefixed_hex"
DeFelt == "deserialize_prefixed_hex_string_to_felt"
DePatricia == "deserialize_to_prefixed_patricia_key"
DeAddress == "deserialize_to_prefixed_contract_address"
SerPatricia == "serialize_patricia_key_to_prefixed_hex"
SerAddress == "serialize_contract_address_to_prefixed_hex"

IsLowerHexDigit(c) == \E i \in 1..16 : HexLower[i] = c

\* '0x0', or '0x' and lowercase hex digits of which the first is not 0
IsCanonicalHex(s) ==
    /\ Len(s) >= 3
    /\ s[1] = "0" /\ s[2] = "x"
    /\ \A i \in 3..Len(s) : IsLowerHexDigit(s[i])
    /\ s[3] = "0" => Len(s) = 3

\* the nibbles of the digits after the prefix, leading zeros removed
Magnitude(s) == TrimStart([i \in 1..(Len(s) - 2) |-> HexDigitValue(s[i + 2])], 0)

\* a < b for two magnitudes without leading zeros
MagnitudeLess(a, b) ==
    \/ Len(a) < Len(b)
    \/ /\ Len(a) = Len(b)
       /\ \E i \in 1..Len(a) : a[i] < b[i] /\ \A j \in 1..(i - 1) : a[j] = b[j]

\* '0x', one or more hex digits, value below the field modulus
IsFeltHex(s) ==
    /\ Len(s) >= 3
    /\ s[1] = "0" /\ s[2] = "x"
    /\ \A i \in 3..Len(s) : IsHexDigit(s[i])
    /\ MagnitudeLess(Magnitude(s), TrimStart(FieldModulus, 0))

\* C1: decoding the encoding of a field element v yields v; encoding the
\* decoding of a canonical text s yields s (256 <-> "0x100"); a non-canonical
\* text that decodes re-encodes to the canonical text of the same value
\* ("0x0001" gives "0x1").
C1_HexRoundTrip ==
    /\ stage = <<SerFelt, DeFelt>> => cur = Ok(input.arg)
    /\ stage = <<SerFelt>> /\ input.arg = PadNibbles(<<1, 0, 0>>)
          => cur = Ok(JStr(<<"0", "x", "1", "0", "0">>))
    /\ stage = <<DeFelt>> /\ input.arg = JStr(<<"0", "x", "1", "0", "0">>)
          => cur = Ok(PadNibbles(<<1, 0, 0>>))
    /\ stage = <<DeFelt, SerFelt>> =>
          /\ cur.ok /\ cur.val.t = "str"
          /\ IsCanonicalHex(cur.val.v)
          /\ Magnitude(cur.val.v) = Magnitude(input.arg.v)
          /\ IsCanonicalHex(input.arg.v) => cur.val = input.arg
          /\ ~IsCanonicalHex(input.arg.v) => cur.val # input.arg
          /\ input.arg = JStr(<<"0", "x", "0", "0", "0", "1">>)
                => cur.val = JStr(<<"0", "x", "1">>)

\* the canonical text "0x100" was decoded to 256 and encoded again
C1_Witness ==
    /\ stage = <<DeFelt, SerFelt>>
    /\ input.arg = JStr(<<"0", "x", "1", "0", "0">>)
    /\ cur = Ok(JStr(<<"0", "x", "1", "0", "0">>))

\* C2: the prefixed felt decoder succeeds exactly on '0x' followed by one or
\* more hex digits whose value is below the field modulus, and then returns
\* that value; every other text fails with MalformedHex and yields no value.
C2_DecodeExactly ==
    stage = <<DeFelt>> /\ input.arg.t = "str" =>
        IF IsFeltHex(input.arg.v)
        THEN /\ cur.ok
             /\ Len(cur.val) = FeltNibbles
             /\ TrimStart(cur.val, 0) = Magnitude(input.arg.v)
        ELSE /\ ~cur.ok
             /\ cur.val = NoVal
             /\ cur.err.kind = "MalformedHex"

\* the 2^252 + 1 text of the test was rejected
C2_Witness ==
    /\ stage = <<DeFelt>>
    /\ input.arg = JStr(Text2Pow252Plus1)
    /\ ~cur.ok /\ cur.err.kind = "MalformedHex"

KeyBound(op) == IF op = DePatricia THEN PatriciaKeyBound ELSE ContractAddressBound
KeyTag(op) == IF op = DePatricia THEN "PatriciaKey" ELSE "ContractAddress"
KeyConstructor(op) == IF op = DePatricia THEN "PatriciaKey::new" ELSE "ContractAddress::new"

\* C3: a key decoder builds the key iff the decoded value v is below the
\* bound B of its variant; v >= B fails with OutOfRange carrying v and B; a
\* text that is no field element fails before the range check.  2^251 is a
\* patricia key and 2^251 + 1 is rejected by both variants.
C3_KeyRange ==
    Len(stage) = 1 /\ stage[1] \in {DePatricia, DeAddress} =>
        /\ LET felt == deserialize_prefixed_hex_string_to_felt(input.arg)
           IN IF ~felt.ok
              THEN /\ cur = felt
                   /\ steps = <<DeFelt>>
              ELSE /\ steps = <<DeFelt, KeyConstructor(stage[1])>>
                   /\ IF FeltLess(felt.val, KeyBound(stage[1]))
                      THEN cur = Ok([t |-> KeyTag(stage[1]), v |-> felt.val])
                      ELSE cur = Err(OutOfRange(felt.val, KeyBound(stage[1])))
        /\ stage[1] = DePatricia /\ input.arg = JStr(Text2Pow251) => cur.ok
        /\ input.arg = JStr(Text2Pow251Plus1) => ~cur.ok /\ cur.err.kind = "OutOfRange"

\* 2^251 + 1 decoded as a field element and was rejected as a patricia key
C3_Witness ==
    /\ stage = <<DePatricia>>
    /\ input.arg = JStr(Text2Pow251Plus1)
    /\ cur = Err(OutOfRange(PadNibbles(<<8>> \o [i \in 1..61 |-> 0] \o <<1>>), PatriciaKeyBound))

\* C4: a key built from v serializes to the text serialize_to_prefixed_hex
\* gives for v (address 0x1 gives "0x1"), and the matching key decoder
\* returns the same key from that text.
C4_KeyEncoding ==
    /\ stage = <<SerPatricia>> \/ stage = <<SerAddress>>
          => cur = serialize_to_prefixed_hex(input.arg.v)
    /\ stage = <<SerAddress>> /\ input.arg.v = PadNibbles(<<1>>)
          => cur = Ok(JStr(<<"0", "x", "1">>))
    /\ stage = <<SerPatricia, DePatricia>> \/ stage = <<SerAddress, DeAddress>>
          => cur = Ok(input.arg)
    /\ stage = <<DePatricia, SerPatricia>> \/ stage = <<DeAddress, SerAddress>>
          => cur = serialize_to_prefixed_hex(
                      deserialize_prefixed_hex_string_to_felt(input.arg).val)

\* the patricia key 2^251 was serialized and decoded again to the same key
C4_Witness ==
    /\ stage = <<SerPatricia, DePatricia>>
    /\ input.arg = [t |-> "PatriciaKey", v |-> PadNibbles(<<8>> \o [i \in 1..62 |-> 0])]
    /\ cur = Ok(input.arg)

(***************************************************************************)
(* Properties of the blob decoder, the shape normalizer and the guard.     *)
(***************************************************************************)
Blob == "deserialize_to_serde_json_value_with_keys_ordered_in_alphabetical_order"
Sierra == "deserialize_to_sierra_contract_class"
EmptyParams == "empty_params_deserialize"

\* the drawn blob is the base64 of a gzip stream
IsGzipBlob == input.arg.t = "str" /\ input.arg.v.t = "base64"
                 /\ input.arg.v.v.t \in {"gzip", "gzip_damaged"}
\* the drawn blob is the base64 of an intact gzip stream whose content is
\* not a legacy program
IsSchemaMismatch ==
    /\ input.arg.t = "str" /\ input.arg.v.t = "base64" /\ input.arg.v.v.t = "gzip"
    /\ \/ input.arg.v.v.v.data.t # "json"
       \/ ~LegacyProgram_deserialize(input.arg.v.v.v.data.v).ok

\* C5: on a non-empty blob the first failing step decides the error:
\* invalid base64 gives the base64 error, base64 of bytes that are no gzip
\* stream gives the decompression error, and a gzip stream whose content does
\* not match the schema gives a schema error that differs from both.
C5_StepErrors ==
    Len(stage) >= 1 /\ stage[1] = Blob /\ input.arg.t = "str" /\ ~is_empty(input.arg.v) =>
        /\ input.arg.v.t = "text" =>
              cur = Err(Base64Error) /\ steps = <<"String::deserialize", "base64_decode">>
        /\ input.arg.v.t = "base64" /\ input.arg.v.v.t = "raw" =>
              cur = Err(GzippedBytesError)
        /\ IsSchemaMismatch =>
              ~cur.ok /\ cur.err \notin {Base64Error, GzippedBytesError}

\* C6: the normalizer changes the abi member only: a string abi that parses
\* is replaced by the parsed value ("[1,2,3]" by the array [1,2,3]) and the
\* other members are kept; without a string abi the document handed to the
\* typed decode is the input, and normalizing it again changes nothing.
C6_NormalizerFrame ==
    stage = <<Sierra>> =>
        LET doc == input.arg
            abi == Value_get(doc, "abi")
        IN IF abi.some /\ abi.x.t = "str"
           THEN /\ serde_json_from_str(abi.x.v).ok <=> handed # NoVal
                /\ handed # NoVal =>
                      /\ handed.t = "obj"
                      /\ DOMAIN handed.v = DOMAIN doc.v
                      /\ \A k \in DOMAIN doc.v \ {"abi"} : handed.v[k] = doc.v[k]
                      /\ handed.v["abi"] = serde_json_from_str(abi.x.v).val
                /\ abi.x = JStr(Text123) => handed # NoVal /\ handed.v["abi"] = Array123
           ELSE /\ handed = doc
                /\ normalized_document(handed) = Ok(doc)

\* an object with the abi "[1,2,3]" and two more members was normalized
C6_Witness ==
    /\ stage = <<Sierra>>
    /\ input.arg.t = "obj"
    /\ DOMAIN input.arg.v = {"abi", "sierra_program", "contract_class_version"}
    /\ input.arg.v["abi"] = JStr(Text123)
    /\ handed.v["abi"] = Array123
    /\ cur.ok

\* C7: a document that is no object fails with 'Expected to be an object',
\* an object whose abi string is not JSON fails with the nested parse error,
\* and in both cases the typed decode is not reached.
C7_NormalizerErrors ==
    stage = <<Sierra>> =>
        /\ input.arg.t # "obj" =>
              /\ cur = Err(Custom("Expected to be an object"))
              /\ handed = NoVal
              /\ steps = <<"Value::deserialize">>
        /\ /\ input.arg.t = "obj"
           /\ Value_get(input.arg, "abi").some
           /\ Value_get(input.arg, "abi").x.t = "str"
           /\ ~serde_json_from_str(Value_get(input.arg, "abi").x.v).ok
           => /\ cur = Err(Custom("invalid JSON text"))
              /\ handed = NoVal
              /\ steps = <<"Value::deserialize">>

\* C8: null and [] yield the unit value; every non-empty sequence, whatever
\* its elements, is rejected with 'expected params sequence with length 0
\* but got N', N being its length.
C8_EmptyParams ==
    stage = <<EmptyParams>> =>
        /\ input.arg = JNull \/ input.arg = JArr(<<>>) => cur = Ok(Unit)
        /\ input.arg.t = "arr" /\ input.arg.v # <<>> =>
              cur = Err(UnexpectedLength(Len(input.arg.v)))

\* C9: a gzip stream that inflates to more than the output ceiling fails
\* with the decompression error.
C9_OutputCeiling ==
    Len(stage) >= 1 /\ stage[1] = Blob /\ IsGzipBlob /\ input.arg.v.v.v.size > OutputCeiling =>
        cur = Err(GzippedBytesError)

====
